---- MODULE Spec2Model ----
(***************************************************************************)
(* The LLM query dispatcher and batch coordinator of musiclands-ai:        *)
(* LLMPromptService (services/llm_prompt_service.py), the completion       *)
(* client ChatGPTService (services/chatgpt_service.py), the reply parser   *)
(* TimeRangeExtractorPrompt.parse_response (prompts/time_range_extractor)  *)
(* and the pydantic models of models/llm/requests.py.                      *)
(*                                                                         *)
(* Python values: Optional[T] is None (the empty tuple) or Some(v); a str  *)
(* is a sequence of tokens; a dict is a record, {} the empty function.     *)
(* The asyncio event loop runs one task at a time until that task yields.  *)
(***************************************************************************)
EXTENDS Integers, Sequences, FiniteSets, TLC

VARIABLES
    available,      \* ChatGPTService.is_available(): fixed when the service is built
    phase,          \* where process_batch is: idle, sequential, gather, returned, raised
    requests,       \* batch_request.requests
    parallel,       \* batch_request.parallel
    max_parallel,   \* batch_request.max_parallel
    pc,             \* per item: created, waiting, holding, calling, done
    rid,            \* per item: the request_id process_query generated (0: none yet)
    started,        \* per item: start_time of process_query
    raw,            \* per item: what chat_completion returned to the handler
    handled,        \* per item: what the type handler did (returned data or raised)
    outcome,        \* per item: how the item's coroutine ended (a result or an exception)
    sem,            \* asyncio.Semaphore._value
    waiters,        \* asyncio.Semaphore._waiters
    ready,          \* the event loop's queue of runnable tasks
    current,        \* the task the event loop is running (0: none)
    uuids,          \* number of uuid4() values generated so far
    now,            \* time.time()
    apiCalls,       \* requests issued to client.chat.completions.create
    call,           \* process_batch's locals: batch_id and start_time (None outside a batch)
    responses,      \* the list of results the coordinator is building
    batch,          \* the BatchLLMResponse (None until process_batch returns)
    sent,           \* per item: the request issued to the model API (None: none)
    caller          \* what callers submitted and were given, over the calls so far

vars == <<available, phase, requests, parallel, max_parallel, pc, rid, started, raw,
          handled, outcome, sem, waiters, ready, current, uuids, now, apiCalls,
          call, responses, batch, sent, caller>>

-----------------------------------------------------------------------------
(* Bounds of the model *)

MaxRequests == 2        \* longest batch
MaxParallelArg == 2     \* largest max_parallel submitted
MaxTime == 2            \* timestamps of a reply are 1..MaxTime
MaxQueryLen == 3        \* longest query text submitted
MaxCalls == 2           \* calls made to the service in one run

-----------------------------------------------------------------------------
(* Python values *)

None == <<>>
Some(v) == <<v>>
IsNone(o) == o = None
Val(o) == o[1]

EmptyDict == [k \in {} |-> TRUE]

Min(S) == CHOOSE m \in S : \A n \in S : m <= n
Max(S) == CHOOSE m \in S : \A n \in S : m >= n

-----------------------------------------------------------------------------
(* models/llm/requests.py *)

TIME_RANGE_EXTRACTION == "time_range_extraction"
ACTIVITY_RECOMMENDATION == "activity_recommendation"
LOCATION_ANALYSIS == "location_analysis"
MUSIC_DISCOVERY == "music_discovery"
CONVERSATION == "conversation"

QueryType == {TIME_RANGE_EXTRACTION, ACTIVITY_RECOMMENDATION, LOCATION_ANALYSIS,
              MUSIC_DISCOVERY, CONVERSATION}

\* A query text is a sequence of characters: whitespace, or another character.
SPACE == " "
CHAR == "q"
EmptyQuery == <<>>
Query == <<CHAR>>

\* The query texts a caller submits
RawQueries == UNION {[1..n -> {SPACE, CHAR}] : n \in 0..MaxQueryLen}

\* str.strip(): without the leading and the trailing whitespace
RECURSIVE lstrip(_)
lstrip(v) == IF v # <<>> /\ Head(v) = SPACE THEN lstrip(Tail(v)) ELSE v
RECURSIVE rstrip(_)
rstrip(v) ==
    IF v # <<>> /\ v[Len(v)] = SPACE THEN rstrip(SubSeq(v, 1, Len(v) - 1)) ELSE v
strip(v) == rstrip(lstrip(v))

\* ComplexLLMRequest: the fields the dispatcher branches on or forwards, with
\* a query that passed validation.
ComplexLLMRequest == [query : {Query}, query_type : QueryType]

\* A request whose query was set to the empty string after construction
\* (assignment is not validated).
BypassedRequests == [query : {EmptyQuery}, query_type : {CONVERSATION}]

\* BatchLLMRequest: at most this many requests per batch
MaxBatchSize == 50

\* BatchLLMRequest.max_parallel when the caller gives none
DefaultMaxParallel == 5

\* LLMQueryResponse(request_id, query_type, response_data, processing_time_ms, error)
LLMQueryResponse(request_id, query_type, response_data, processing_time_ms, error) ==
    [request_id |-> request_id, query_type |-> query_type,
     response_data |-> response_data, processing_time_ms |-> processing_time_ms,
     error |-> error]

-----------------------------------------------------------------------------
(* Raw model replies.  A reply text is a sequence of tokens: "lb" and "rb"  *)
(* are the characters { and }, "txt" is a run of other characters, and      *)
(* "body" stands for the members of a JSON object, carrying what they       *)
(* decode to.                                                               *)

LB == [k |-> "lb", obj |-> EmptyDict]
RB == [k |-> "rb", obj |-> EmptyDict]
TXT == [k |-> "txt", obj |-> EmptyDict]
Body(o) == [k |-> "body", obj |-> o]

TopFields == {"time_range", "reasoning", "confidence", "query_type"}
NestedFields == {"start_time", "end_time", "description"}

\* A timestamp string: 0 is a string fromisoformat rejects, t >= 1 the instant t.
BadTimestamp == 0
Timestamps == 0..MaxTime

\* confidence, in tenths
ConfidenceValues == {-1, 0, 5, 10, 11}

\* The members of a decoded reply object: the top-level keys present, the kind
\* of value under time_range (an object, or a number), the keys of that object,
\* and the values under start_time, end_time and confidence.
ReplyObject(top, kind, nested, s, e, c) ==
    [top |-> top, kind |-> kind, nested |-> nested, start_time |-> s, end_time |-> e,
     confidence |-> c]

GoodObject == ReplyObject(TopFields, "dict", NestedFields, 1, 2, 5)

\* Objects that differ from a well-formed one in one respect.
ReplyObjects ==
    {GoodObject}
    \cup {ReplyObject(TopFields \ {f}, "dict", NestedFields, 1, 2, 5) : f \in TopFields}
    \cup {ReplyObject(TopFields, "dict", NestedFields \ {f}, 1, 2, 5) : f \in NestedFields}
    \cup {ReplyObject(TopFields, "num", {}, 1, 2, 5)}
    \cup {ReplyObject(TopFields, "dict", NestedFields, s, e, 5) :
            s \in Timestamps, e \in Timestamps}
    \cup {ReplyObject(TopFields, "dict", NestedFields, 1, 2, c) : c \in ConfidenceValues}

Json(o) == <<LB, Body(o), RB>>

\* Reply texts: the empty string, prose, an object alone or inside prose, the
\* empty object, and texts whose braces do not enclose one object.
ReplyTexts ==
    {<<>>, <<TXT>>, <<LB, RB>>, <<RB, TXT, LB>>, <<LB, TXT, RB>>, <<LB, TXT>>}
    \cup {Json(o) : o \in ReplyObjects}
    \cup {<<TXT>> \o Json(GoodObject) \o <<TXT>>,
          Json(GoodObject) \o Json(GoodObject)}

\* What client.chat.completions.create does: it raises, or it returns a message
\* whose content is None or a text.
ApiRaises == [raises |-> TRUE, content |-> None]
ApiReturns(content) == [raises |-> FALSE, content |-> content]

ApiOutcomes == {ApiRaises, ApiReturns(None)} \cup {ApiReturns(Some(t)) : t \in ReplyTexts}

\* The outcomes used for the items of a batch.
BatchApiOutcomes ==
    {ApiRaises, ApiReturns(Some(<<TXT>>)), ApiReturns(Some(Json(GoodObject))),
     ApiReturns(Some(Json(ReplyObject(TopFields, "dict", NestedFields, 2, 1, 5))))}

-----------------------------------------------------------------------------
(* prompts/time_range_extractor.py: parse_response *)

\* str.find('{') and str.rfind('}'): a 0-based index, or -1
find(s, c) ==
    IF \E i \in 1..Len(s) : s[i] = c THEN Min({i \in 1..Len(s) : s[i] = c}) - 1 ELSE -1
rfind(s, c) ==
    IF \E i \in 1..Len(s) : s[i] = c THEN Max({i \in 1..Len(s) : s[i] = c}) - 1 ELSE -1

\* s[a:b] for 0 <= a and 0 <= b <= len(s)
Slice(s, a, b) == SubSeq(s, a + 1, b)

EmptyObject == ReplyObject({}, "dict", {}, BadTimestamp, BadTimestamp, 5)

\* json.loads: a text decodes when it is exactly one object.
json_loads(s) ==
    IF s = <<LB, RB>> THEN Some(EmptyObject)
    ELSE IF Len(s) = 3 /\ s[1] = LB /\ s[2].k = "body" /\ s[3] = RB THEN Some(s[2].obj)
    ELSE None

\* What a call did: it returned a value, or it raised an exception with a message.
Return(v) == [raised |-> FALSE, msg |-> "", value |-> v]
Raise(msg) == [raised |-> TRUE, msg |-> msg, value |-> EmptyDict]

-----------------------------------------------------------------------------
(* models/llm/requests.py: the validators *)

\* The validator returns the query as given.
query_not_empty_unstripped(v) ==
    IF v = <<>> \/ strip(v) = <<>> THEN Raise("Query cannot be empty") ELSE Return(v)

\* ComplexLLMRequest.query_not_empty
query_not_empty(v) ==
    IF v = <<>> \/ strip(v) = <<>> THEN Raise("Query cannot be empty")
    ELSE Return(strip(v))

\* The validator lets a list of MaxBatchSize + 1 requests through.
requests_not_empty_off_by_one(v) ==
    IF Len(v) = 0 THEN Raise("Requests list cannot be empty")
    ELSE IF Len(v) > MaxBatchSize + 1 THEN Raise("Maximum 50 requests per batch")
    ELSE Return(v)

\* BatchLLMRequest.requests_not_empty
requests_not_empty(v) ==
    IF Len(v) = 0 THEN Raise("Requests list cannot be empty")
    ELSE IF Len(v) > MaxBatchSize THEN Raise("Maximum 50 requests per batch")
    ELSE Return(v)

-----------------------------------------------------------------------------
(* prompts/time_range_extractor.py: parse_response, continued *)

\* parse_response that ends the substring at the first closing brace
parse_response_first_close(llm_response) ==
    LET start_idx == find(llm_response, LB)
        end_idx == find(llm_response, RB) + 1
    IN  IF start_idx = -1 \/ end_idx = 0 THEN Return(None)
        ELSE LET parsed == json_loads(Slice(llm_response, start_idx, end_idx))
             IN  IF IsNone(parsed) THEN Return(None)
                 ELSE IF ~(TopFields \subseteq Val(parsed).top) THEN Return(None)
                 ELSE IF Val(parsed).kind # "dict"
                      THEN Raise("argument of type 'int' is not iterable")
                 ELSE IF ~(NestedFields \subseteq Val(parsed).nested) THEN Return(None)
                 ELSE Return(parsed)

\* parse_response without the check of the nested time_range fields
parse_response_top_only(llm_response) ==
    LET start_idx == find(llm_response, LB)
        end_idx == rfind(llm_response, RB) + 1
    IN  IF start_idx = -1 \/ end_idx = 0 THEN Return(None)
        ELSE LET parsed == json_loads(Slice(llm_response, start_idx, end_idx))
             IN  IF IsNone(parsed) THEN Return(None)
                 ELSE IF ~(TopFields \subseteq Val(parsed).top) THEN Return(None)
                 ELSE Return(parsed)

parse_response(llm_response) ==
    LET start_idx == find(llm_response, LB)
        end_idx == rfind(llm_response, RB) + 1
    IN  IF start_idx = -1 \/ end_idx = 0 THEN Return(None)
        ELSE LET parsed == json_loads(Slice(llm_response, start_idx, end_idx))
             IN  IF IsNone(parsed) THEN Return(None)                \* JSONDecodeError
                 ELSE IF ~(TopFields \subseteq Val(parsed).top) THEN Return(None)
                 ELSE IF Val(parsed).kind # "dict"
                      THEN Raise("argument of type 'int' is not iterable")
                 ELSE IF ~(NestedFields \subseteq Val(parsed).nested) THEN Return(None)
                 ELSE Return(parsed)

-----------------------------------------------------------------------------
(* services/chatgpt_service.py *)

\* chat_completion without its is_available() guard
ChatCompletionCallsApiUnguarded(avail) == TRUE

\* chat_completion returns None without calling the API unless is_available().
ChatCompletionCallsApi(avail) == avail

\* chat_completion's value once the API call has ended: the message content, or
\* None when the call raised.
chat_completion(api) == IF api.raises THEN None ELSE api.content

-----------------------------------------------------------------------------
(* services/llm_prompt_service.py: the type handlers, from the value that     *)
(* chat_completion gave them                                                  *)

\* Python's `not raw_response` for an Optional[str]
Falsy(o) == IsNone(o) \/ Val(o) = <<>>

\* Every handler checks is_available() before its call.
HandlerRequiresAvailableAlways(query_type) == TRUE

\* Only the time range handler asks is_available() itself.
HandlerRequiresAvailable(query_type) == query_type = TIME_RANGE_EXTRACTION

Unavailable == Raise("ChatGPT service is not available")

\* The validator rejects only an end before the start.
end_not_before_start(start_time, end_time) == ~(end_time < start_time)

\* TimeRange.end_after_start
end_after_start(start_time, end_time) == ~(end_time <= start_time)

\* The confidence field has no range.
ConfidenceAcceptedAny(c) == TRUE

\* TimeRangeExtractionResponse.confidence: Field(ge=0.0, le=1.0), in tenths
ConfidenceAccepted(c) == 0 <= c /\ c <= 10

\* A subscript d[key] on the decoded reply: the exception it raises, or None.
\* parsed_data['time_range']['start_time'] needs time_range to be an object.
MissingKey(o) ==
    IF "time_range" \notin o.top THEN Some("'time_range'")
    ELSE IF o.kind # "dict" THEN Some("'int' object is not subscriptable")
    ELSE IF "start_time" \notin o.nested THEN Some("'start_time'")
    ELSE IF "end_time" \notin o.nested THEN Some("'end_time'")
    ELSE IF "description" \notin o.nested THEN Some("'description'")
    ELSE IF "reasoning" \notin o.top THEN Some("'reasoning'")
    ELSE IF "confidence" \notin o.top THEN Some("'confidence'")
    ELSE IF "query_type" \notin o.top THEN Some("'query_type'")
    ELSE None

\* The handler after chat_completion returned raw_response (the is_available
\* check before the call is in StartQuery).
process_time_range_extraction(request, raw_response) ==
    IF Falsy(raw_response) THEN Raise("Failed to get LLM response")
    ELSE LET parsed == parse_response(Val(raw_response))
         IN  IF parsed.raised THEN parsed
             ELSE IF IsNone(parsed.value)
                  THEN Raise("Failed to parse structured response from LLM")
             ELSE LET o == Val(parsed.value)
                  IN  IF ~IsNone(MissingKey(o)) THEN Raise(Val(MissingKey(o)))
                      ELSE IF o.start_time = BadTimestamp \/ o.end_time = BadTimestamp
                      THEN Raise("Invalid isoformat string")
                      ELSE IF ~end_after_start(o.start_time, o.end_time)
                      THEN Raise("End time must be after start time")
                      ELSE IF ~ConfidenceAccepted(o.confidence)
                      THEN Raise("confidence: ensure this value is in range")
                      ELSE Return([time_range |-> [start_time |-> o.start_time,
                                                   end_time |-> o.end_time,
                                                   description |-> "description"],
                                   reasoning |-> "reasoning",
                                   confidence |-> o.confidence,
                                   query_type |-> "query_type",
                                   raw_llm_response |-> raw_response])

\* The handler returns the reply without the rendered context.
process_activity_recommendation_bare(request, response) ==
    Return([recommendation |-> response])

process_activity_recommendation(request, response) ==
    Return([recommendation |-> response, context |-> "context"])

process_music_discovery(request, response) ==
    Return([music_response |-> response, user_context |-> EmptyDict])

process_conversation(request, response) ==
    Return([response |-> response])

\* The branch ends with an error for a type that has no handler of its own.
HandlerStrict(request, response) ==
    IF request.query_type = TIME_RANGE_EXTRACTION
    THEN process_time_range_extraction(request, response)
    ELSE IF request.query_type = ACTIVITY_RECOMMENDATION
    THEN process_activity_recommendation(request, response)
    ELSE IF request.query_type = MUSIC_DISCOVERY
    THEN process_music_discovery(request, response)
    ELSE IF request.query_type = CONVERSATION
    THEN process_conversation(request, response)
    ELSE Raise("Unsupported query type")

\* The branch of process_query on request.query_type
Handler(request, response) ==
    IF request.query_type = TIME_RANGE_EXTRACTION
    THEN process_time_range_extraction(request, response)
    ELSE IF request.query_type = ACTIVITY_RECOMMENDATION
    THEN process_activity_recommendation(request, response)
    ELSE IF request.query_type = MUSIC_DISCOVERY
    THEN process_music_discovery(request, response)
    ELSE process_conversation(request, response)

\* The arguments a handler gives the completion client: the user message (the
\* raw query, or the time range prompt built around it), the system prompt,
\* max_tokens and temperature (in tenths).
RawMessage(query) == [template |-> "", query |-> query]
build_prompt(query) == [template |-> "time_range_extractor", query |-> query]

ChatCall(message, system_prompt, max_tokens, temperature) ==
    [message |-> message, system_prompt |-> system_prompt, max_tokens |-> max_tokens,
     temperature |-> temperature]

HandlerCall(request) ==
    IF request.query_type = TIME_RANGE_EXTRACTION
    THEN ChatCall(build_prompt(request.query), None, 800, 3)
    ELSE IF request.query_type = ACTIVITY_RECOMMENDATION
    THEN ChatCall(RawMessage(request.query), Some("activity recommendation assistant"),
                  800, 7)
    ELSE IF request.query_type = MUSIC_DISCOVERY
    THEN ChatCall(RawMessage(request.query), Some("music assistant"), 800, 8)
    ELSE ChatCall(RawMessage(request.query), None, 600, 8)

\* No except clause: the handler's exception ends the coroutine.
process_query_uncaught(request, request_id, processing_time_ms, h) ==
    IF h.raised
    THEN Raise(h.msg)
    ELSE Return(LLMQueryResponse(request_id, request.query_type, h.value,
                                 Some(processing_time_ms), None))

\* The except clause fills response_data as well as error.
process_query_error_in_data(request, request_id, processing_time_ms, h) ==
    IF h.raised
    THEN Return(LLMQueryResponse(request_id, request.query_type, [error |-> h.msg],
                                 Some(processing_time_ms), Some(h.msg)))
    ELSE Return(LLMQueryResponse(request_id, request.query_type, h.value,
                                 Some(processing_time_ms), None))

\* process_query's try/except around the handler: what the coroutine ends with.
process_query(request, request_id, processing_time_ms, h) ==
    IF h.raised
    THEN Return(LLMQueryResponse(request_id, request.query_type, EmptyDict,
                                 Some(processing_time_ms), Some(h.msg)))
    ELSE Return(LLMQueryResponse(request_id, request.query_type, h.value,
                                 Some(processing_time_ms), None))

-----------------------------------------------------------------------------
(* The state machine *)

Items == 1..Len(requests)

\* Batches a caller submits: BatchLLMRequest(requests, parallel, max_parallel)
\* (a service caller can also hand in requests that bypassed validation)
RequestLists ==
    UNION {[1..n -> ComplexLLMRequest \cup BypassedRequests] : n \in 0..MaxRequests}
MaxParallelArgs == -1..MaxParallelArg

Init ==
    /\ available \in BOOLEAN
    /\ phase = "idle"
    /\ requests = <<>>
    /\ parallel = FALSE
    /\ max_parallel = 0
    /\ pc = <<>>
    /\ rid = <<>>
    /\ started = <<>>
    /\ raw = <<>>
    /\ handled = <<>>
    /\ outcome = <<>>
    /\ sem = 0
    /\ waiters = <<>>
    /\ ready = <<>>
    /\ current = 0
    /\ uuids = 0
    /\ now = 0
    /\ apiCalls = 0
    /\ call = None
    /\ responses = <<>>
    /\ batch = None
    /\ sent = <<>>
    /\ caller = [query |-> None, size |-> None, calls |-> 0, ids |-> <<>>,
                 batch_ids |-> <<>>, prev |-> None, built |-> None]

\* asyncio.Semaphore(value) raises ValueError for a negative value.
SemaphoreAccepts(value) == value >= 0

\* The task enters without looking at the permits.
PermitIgnored(value) == TRUE

\* `async with semaphore`: the task enters when a permit is free, else it waits.
PermitFree(value) == value > 0

\* The items start as coroutines that have not run.
StartItems(reqs) ==
    /\ requests' = reqs
    /\ pc' = [i \in 1..Len(reqs) |-> "created"]
    /\ rid' = [i \in 1..Len(reqs) |-> 0]
    /\ started' = [i \in 1..Len(reqs) |-> 0]
    /\ raw' = [i \in 1..Len(reqs) |-> None]
    /\ handled' = [i \in 1..Len(reqs) |-> None]
    /\ outcome' = [i \in 1..Len(reqs) |-> None]
    /\ sent' = [i \in 1..Len(reqs) |-> None]

\* A caller awaits process_query(request) directly (the single-query routes).
ProcessQuery(request) ==
    /\ phase = "idle"
    /\ phase' = "single"
    /\ StartItems(<<request>>)
    /\ UNCHANGED <<available, parallel, max_parallel, sem, waiters, ready, current,
                   uuids, now, apiCalls, call, responses, batch>>

\* process_batch up to its first await: batch_id, start_time, and in parallel
\* mode the semaphore and one task per request, queued in input order.
ProcessBatch(reqs, par, k) ==
    /\ phase = "idle"
    /\ parallel' = par
    /\ max_parallel' = k
    /\ uuids' = uuids + 1
    /\ call' = Some([batch_id |-> uuids + 1, start_time |-> now])
    /\ StartItems(reqs)
    /\ IF ~par
       THEN /\ phase' = "sequential"
            /\ UNCHANGED <<sem, ready>>
       ELSE IF ~SemaphoreAccepts(k)
       THEN /\ phase' = "raised"
            /\ UNCHANGED <<sem, ready>>
       ELSE /\ phase' = "gather"
            /\ sem' = k
            /\ ready' = [i \in 1..Len(reqs) |-> i]
    /\ UNCHANGED <<available, waiters, current, now, apiCalls, responses, batch>>

\* The event loop takes the next task whatever the running one is doing.
LoopFreeAlways(running) == TRUE

\* The event loop takes the next ready task only when no task is running: a
\* task keeps the loop until it awaits something that is not ready, or ends.
LoopFree(running) == running = 0

\* The event loop runs the next ready task: process_with_semaphore enters the
\* semaphore, or parks itself among the waiters and yields.
RunTask(i) ==
    /\ phase = "gather"
    /\ LoopFree(current)
    /\ ready # <<>>
    /\ i = Head(ready)
    /\ ready' = Tail(ready)
    /\ IF PermitFree(sem)
       THEN /\ sem' = sem - 1
            /\ pc' = [pc EXCEPT ![i] = "holding"]
            /\ current' = i
            /\ UNCHANGED waiters
       ELSE /\ waiters' = Append(waiters, i)
            /\ pc' = [pc EXCEPT ![i] = "waiting"]
            /\ UNCHANGED <<sem, current>>
    /\ UNCHANGED <<available, phase, requests, parallel, max_parallel, rid, started, raw,
                   handled, outcome, uuids, now, apiCalls, call, responses, batch, sent,
                   caller>>

\* The task ends without giving its permit back.
ReleaseNothing ==
    /\ current' = 0
    /\ UNCHANGED <<sem, ready, waiters>>

\* Semaphore.release(): one permit back, the first waiter made runnable.
Release ==
    /\ sem' = sem + 1
    /\ current' = 0
    /\ IF waiters # <<>>
       THEN /\ ready' = Append(ready, Head(waiters))
            /\ waiters' = Tail(waiters)
       ELSE UNCHANGED <<ready, waiters>>

\* The loop keeps only the results without an error.
AppendResponseIfOk(rs, response) ==
    IF IsNone(response.error) THEN Append(rs, response) ELSE rs

\* responses.append(response) in _process_batch_sequential
AppendResponse(rs, response) == Append(rs, response)

\* The end of process_query for item i: chat_completion gave r, the handler did
\* h, ms is the elapsed time.  The sequential loop appends the result, or raises
\* what the call raised; a parallel task gives its permit back.
Finish(i, request_id, r, h, ms) ==
    LET o == process_query(requests[i], request_id, ms, h)
    IN  /\ raw' = [raw EXCEPT ![i] = r]
        /\ handled' = [handled EXCEPT ![i] = Some(h)]
        /\ outcome' = [outcome EXCEPT ![i] = Some(o)]
        /\ pc' = [pc EXCEPT ![i] = "done"]
        /\ IF phase = "gather"
           THEN Release /\ UNCHANGED <<phase, responses>>
           ELSE /\ phase' = IF o.raised /\ phase = "sequential" THEN "raised" ELSE phase
                /\ responses' = IF ~o.raised /\ phase = "sequential"
                                THEN AppendResponse(responses, o.value)
                                ELSE responses
                /\ UNCHANGED <<sem, current, ready, waiters>>

\* The loop enters process_query for any item that has not run.
MayStartUnordered(i) ==
    IF phase = "gather"
    THEN pc[i] = "holding" /\ current = i
    ELSE /\ phase \in {"single", "sequential"}
         /\ pc[i] = "created"

\* Item i is where process_query can be entered: the next item of the loop, or
\* the running task that holds a permit.
MayStart(i) ==
    IF phase = "gather"
    THEN pc[i] = "holding" /\ current = i
    ELSE /\ phase \in {"single", "sequential"}
         /\ pc[i] = "created"
         /\ \A j \in 1..(i - 1) : pc[j] = "done"

\* process_query from its entry to the model call: start_time, request_id, the
\* branch on query_type and the availability checks of the handler and of
\* chat_completion.
StartQuery(i) ==
    /\ i \in Items
    /\ MayStart(i)
    /\ uuids' = uuids + 1
    /\ rid' = [rid EXCEPT ![i] = uuids + 1]
    /\ started' = [started EXCEPT ![i] = now]
    /\ IF HandlerRequiresAvailable(requests[i].query_type) /\ ~available
       THEN Finish(i, uuids + 1, None, Unavailable, 0) /\ UNCHANGED <<apiCalls, sent>>
       ELSE IF ~ChatCompletionCallsApi(available)
       THEN /\ Finish(i, uuids + 1, None, Handler(requests[i], None), 0)
            /\ UNCHANGED <<apiCalls, sent>>
       ELSE /\ pc' = [pc EXCEPT ![i] = "calling"]
            /\ apiCalls' = apiCalls + 1
            /\ sent' = [sent EXCEPT ![i] = Some(HandlerCall(requests[i]))]
            /\ UNCHANGED <<raw, handled, outcome, phase, responses, sem, current, ready,
                           waiters>>
    /\ UNCHANGED <<available, requests, parallel, max_parallel, now, call, batch, caller>>

\* The blocking model call of item i ends with api; the rest of the handler and
\* of process_query runs without yielding.
ModelReturns(i, api) ==
    /\ i \in Items
    /\ phase \in {"single", "sequential", "gather"}
    /\ pc[i] = "calling"
    /\ now' = now + 1
    /\ LET r == chat_completion(api)
       IN  Finish(i, rid[i], r, Handler(requests[i], r), now + 1 - started[i])
    /\ UNCHANGED <<available, requests, parallel, max_parallel, rid, started, uuids,
                   apiCalls, call, batch, sent, caller>>

\* The entries come back last task first.
GatherReversed(outs) == [i \in 1..Len(outs) |-> Val(outs[Len(outs) + 1 - i])]

\* asyncio.gather(*tasks, return_exceptions=True): one entry per task, in the
\* order of the tasks, a task's exception in place of its result.
Gather(outs) == [i \in 1..Len(outs) |-> Val(outs[i])]

\* Number of exceptions among the first i gathered entries
RaisedUpTo(gathered, i) == Cardinality({j \in 1..i : gathered[j].raised})

\* The error responses take the last identifier generated before the loop.
ConvertExceptionsReusedId(gathered, reqs, u) ==
    [i \in 1..Len(gathered) |->
        IF gathered[i].raised
        THEN LLMQueryResponse(u, reqs[i].query_type, EmptyDict, None,
                              Some(gathered[i].msg))
        ELSE gathered[i].value]

\* The error responses take the query_type of the first request.
ConvertExceptionsFirstType(gathered, reqs, u) ==
    [i \in 1..Len(gathered) |->
        IF gathered[i].raised
        THEN LLMQueryResponse(u + RaisedUpTo(gathered, i), reqs[1].query_type,
                              EmptyDict, None, Some(gathered[i].msg))
        ELSE gathered[i].value]

\* The loop of _process_batch_parallel that turns exceptions into error
\* responses; u is the number of uuids generated before it.
ConvertExceptions(gathered, reqs, u) ==
    [i \in 1..Len(gathered) |->
        IF gathered[i].raised
        THEN LLMQueryResponse(u + RaisedUpTo(gathered, i), reqs[i].query_type,
                              EmptyDict, None, Some(gathered[i].msg))
        ELSE gathered[i].value]

\* Every response is counted as successful.
SuccessfulCountAll(rs) == Len(rs)

\* sum(1 for r in responses if r.error is None)
SuccessfulCount(rs) == Cardinality({i \in 1..Len(rs) : IsNone(rs[i].error)})
FailedCount(rs) == Len(rs) - SuccessfulCount(rs)

BatchLLMResponse(batch_id, rs, total_processing_time_ms) ==
    [batch_id |-> batch_id, responses |-> rs,
     total_processing_time_ms |-> total_processing_time_ms,
     successful_count |-> SuccessfulCount(rs), failed_count |-> FailedCount(rs)]

\* Every item has ended and the coordinator runs again: the rest of
\* process_batch, to its return.
FinishBatch ==
    /\ phase \in {"sequential", "gather"}
    /\ \A i \in Items : pc[i] = "done"
    /\ current = 0
    /\ LET gathered == Gather(outcome)
           rs == IF phase = "gather"
                 THEN ConvertExceptions(gathered, requests, uuids)
                 ELSE responses
       IN  /\ responses' = rs
           /\ uuids' = IF phase = "gather"
                       THEN uuids + RaisedUpTo(gathered, Len(gathered))
                       ELSE uuids
           /\ batch' = Some(BatchLLMResponse(Val(call).batch_id, rs,
                                             now - Val(call).start_time))
           /\ caller' = [caller EXCEPT
                            !.ids = @ \o [i \in 1..Len(rs) |-> rs[i].request_id],
                            !.batch_ids = Append(@, Val(call).batch_id)]
    /\ phase' = "returned"
    /\ UNCHANGED <<available, requests, parallel, max_parallel, pc, rid, started, raw,
                   handled, outcome, sem, waiters, ready, current, now, apiCalls, call,
                   sent>>

\* process_query returns its result to the caller that awaited it.
ReturnQuery ==
    /\ phase = "single"
    /\ pc[1] = "done"
    /\ phase' = IF Val(outcome[1]).raised THEN "raised" ELSE "returned"
    /\ caller' = IF Val(outcome[1]).raised THEN caller
                 ELSE [caller EXCEPT !.ids = Append(@, Val(outcome[1]).value.request_id)]
    /\ UNCHANGED <<available, requests, parallel, max_parallel, pc, rid, started, raw,
                   handled, outcome, sem, waiters, ready, current, uuids, now, apiCalls,
                   call, responses, batch, sent>>

\* The call ends at the request model: nothing of the service has run.
Rejected ==
    /\ phase' = "rejected"
    /\ UNCHANGED <<available, requests, parallel, max_parallel, pc, rid, started, raw,
                   handled, outcome, sem, waiters, ready, current, uuids, now, apiCalls,
                   call, responses, batch, sent>>

\* A single-query route: the ComplexLLMRequest is constructed from the caller's
\* query, and the constructed request is dispatched.
ProcessComplexQuery(query, query_type) ==
    LET v == query_not_empty(query)
    IN  /\ phase = "idle"
        /\ caller' = [caller EXCEPT !.query = Some(query)]
        /\ IF v.raised
           THEN Rejected
           ELSE ProcessQuery([query |-> v.value, query_type |-> query_type])

\* The batch route: the BatchLLMRequest is constructed from the caller's list,
\* and the constructed batch is given to process_batch.
ProcessBatchQueries(reqs, par, k) ==
    LET v == requests_not_empty(reqs)
    IN  /\ phase = "idle"
        /\ caller' = [caller EXCEPT !.size = Some(Len(reqs))]
        /\ IF v.raised
           THEN Rejected
           ELSE ProcessBatch(v.value, par, k)

\* The service takes a call when no call is in progress.
Idle == phase = "idle"

Next ==
    \/ Idle /\ \E request \in ComplexLLMRequest : ProcessQuery(request) /\ UNCHANGED caller
    \/ Idle /\ \E reqs \in RequestLists, par \in BOOLEAN, k \in MaxParallelArgs :
                    ProcessBatchQueries(reqs, par, k)
    \/ \E i \in Items : RunTask(i)
    \/ \E i \in Items : StartQuery(i)
    \/ \E i \in Items, api \in BatchApiOutcomes : ModelReturns(i, api)
    \/ FinishBatch
    \/ ReturnQuery

Spec == Init /\ [][Next]_vars

\* One dispatch, over every reply of ReplyTexts
NextDispatch ==
    \/ Idle /\ \E request \in ComplexLLMRequest : ProcessQuery(request) /\ UNCHANGED caller
    \/ StartQuery(1)
    \/ \E api \in ApiOutcomes : ModelReturns(1, api)
    \/ ReturnQuery

SpecDispatch == Init /\ [][NextDispatch]_vars

-----------------------------------------------------------------------------
(* Properties *)

Done(i) == pc[i] = "done"
Dispatched == {i \in Items : Done(i)}

\* The Query Result of a finished item
ResultOf(i) == Val(outcome[i]).value

ErrorBearing(r) == ~IsNone(r.error) /\ r.response_data = EmptyDict

Holders == {i \in Items : pc[i] \in {"holding", "calling"}}
InFlight == {i \in Items : pc[i] = "calling"}

\* C1: the Batch Result that process_batch returns, in sequential and in
\* parallel mode, has as many responses as the batch has requests, and its
\* successful_count and failed_count add up to that number.
C1_BatchLengthAndCounts ==
    ~IsNone(batch) =>
        /\ Len(Val(batch).responses) = Len(requests)
        /\ Val(batch).successful_count + Val(batch).failed_count
                = Len(Val(batch).responses)

C1_Witness ==
    /\ phase = "returned" /\ ~IsNone(batch) /\ ~parallel
    /\ Len(requests) = 2
    /\ Val(batch).successful_count = 1
    /\ Val(batch).failed_count = 1

\* C2: in a parallel batch, responses[i] is the result that the dispatch of
\* requests[i] produced: it has the request_id generated for item i and the
\* query_type of requests[i].
C2_ParallelOutputOrder ==
    (~IsNone(batch) /\ parallel) =>
        \A i \in Items :
            /\ Val(batch).responses[i] = ResultOf(i)
            /\ Val(batch).responses[i].request_id = rid[i]
            /\ Val(batch).responses[i].query_type = requests[i].query_type

C2_Witness ==
    /\ ~IsNone(batch) /\ parallel
    /\ Len(requests) = 2
    /\ requests[1].query_type = TIME_RANGE_EXTRACTION
    /\ requests[2].query_type = MUSIC_DISCOVERY
    /\ ~IsNone(Val(batch).responses[1].error)
    /\ IsNone(Val(batch).responses[2].error)
    /\ apiCalls = 2

\* C3: in a parallel batch the items that hold a permit, and so the model
\* calls in flight, never number more than max_parallel; the permits left are
\* max_parallel less the holders, and an item waits only when none is left.
C3_ParallelBound ==
    phase = "gather" =>
        /\ Cardinality(InFlight) <= max_parallel
        /\ Cardinality(Holders) <= max_parallel
        /\ sem = max_parallel - Cardinality(Holders)
        /\ \A i \in Items : pc[i] = "waiting" => sem = 0

C3_Witness ==
    /\ phase = "gather"
    /\ max_parallel = 1
    /\ Len(requests) = 2
    /\ pc[1] = "calling"
    /\ pc[2] = "created"

\* C4: process_query ends by returning a Query Result, never by raising; when
\* its handler raised an exception, the result's error is that exception's
\* message and its response_data is empty.
C4_DispatchNeverRaises ==
    \A i \in Dispatched :
        /\ ~Val(outcome[i]).raised
        /\ Val(handled[i]).raised =>
                /\ ResultOf(i).error = Some(Val(handled[i]).msg)
                /\ ResultOf(i).response_data = EmptyDict

C4_Witness ==
    /\ phase = "returned"
    /\ Done(1)
    /\ Val(handled[1]).raised
    /\ Val(handled[1]).msg = "Invalid isoformat string"
    /\ ResultOf(1).error = Some("Invalid isoformat string")

\* C5: every Query Result, of a dispatch or in a Batch Result, has either a
\* non-empty response_data and no error, or an error and an empty
\* response_data, and not both.
OneOfSuccessOrError(r) ==
    (r.response_data # EmptyDict /\ IsNone(r.error))
        # (~IsNone(r.error) /\ r.response_data = EmptyDict)

C5_SuccessXorError ==
    /\ \A i \in Dispatched : OneOfSuccessOrError(ResultOf(i))
    /\ ~IsNone(batch) =>
            \A i \in 1..Len(Val(batch).responses) :
                OneOfSuccessOrError(Val(batch).responses[i])

C5_Witness ==
    /\ ~IsNone(batch) /\ parallel
    /\ Len(requests) = 2
    /\ ErrorBearing(Val(batch).responses[1])
    /\ Val(batch).responses[2].response_data # EmptyDict
    /\ IsNone(Val(batch).responses[2].error)

\* C6: while the Completion Client is unavailable, the dispatch of a request
\* of any query type returns an error-bearing Query Result.
C6_UnavailableIsError ==
    ~available => \A i \in Dispatched : ErrorBearing(ResultOf(i))

\* C7: while the Completion Client is unavailable, no request is issued to
\* the model API, and no call is in flight.
C7_NoApiCallWhileUnavailable ==
    ~available => apiCalls = 0 /\ InFlight = {}

C7_Witness ==
    /\ ~available
    /\ ~IsNone(batch) /\ ~parallel
    /\ Len(requests) = 2
    /\ requests[1].query_type = TIME_RANGE_EXTRACTION
    /\ requests[2].query_type = CONVERSATION

\* C8: when the Completion Client returns no text (None or the empty string),
\* the dispatch returns an error-bearing Query Result, for every query type.
C8_NoTextIsError ==
    \A i \in Dispatched : Falsy(raw[i]) => ErrorBearing(ResultOf(i))

\* The object a reply text decodes to, between its first { and its last }
DecodedReply(text) ==
    IF find(text, LB) = -1 \/ rfind(text, RB) = -1 THEN None
    ELSE json_loads(Slice(text, find(text, LB), rfind(text, RB) + 1))

LacksRequiredField(o) ==
    \/ ~(TopFields \subseteq o.top)
    \/ o.kind # "dict"
    \/ ~(NestedFields \subseteq o.nested)

\* Item i is a time range extraction whose reply decoded to an object.
TimeRangeReply(i) ==
    /\ i \in Items
    /\ Done(i)
    /\ requests[i].query_type = TIME_RANGE_EXTRACTION
    /\ ~Falsy(raw[i])
    /\ ~IsNone(DecodedReply(Val(raw[i])))

ReplyObjectOf(i) == Val(DecodedReply(Val(raw[i])))

C10_EndAfterStart ==
    \A i \in Items :
        /\ (/\ TimeRangeReply(i)
            /\ ~LacksRequiredField(ReplyObjectOf(i))
            /\ ReplyObjectOf(i).start_time # BadTimestamp
            /\ ReplyObjectOf(i).end_time # BadTimestamp
            /\ ReplyObjectOf(i).end_time <= ReplyObjectOf(i).start_time)
                => ErrorBearing(ResultOf(i))
        /\ (/\ Done(i)
            /\ requests[i].query_type = TIME_RANGE_EXTRACTION
            /\ IsNone(ResultOf(i).error))
                => ResultOf(i).response_data.time_range.end_time
                        > ResultOf(i).response_data.time_range.start_time

C10_Witness ==
    /\ TimeRangeReply(1)
    /\ ~LacksRequiredField(ReplyObjectOf(1))
    /\ ReplyObjectOf(1).start_time = 2
    /\ ReplyObjectOf(1).end_time = 2
    /\ ResultOf(1).error = Some("End time must be after start time")

-----------------------------------------------------------------------------
(* A single-query route: construction of the request, then its dispatch *)

NextRoute ==
    \/ Idle /\ \E query \in RawQueries, query_type \in QueryType :
                    ProcessComplexQuery(query, query_type)
    \/ StartQuery(1)
    \/ \E api \in BatchApiOutcomes : ModelReturns(1, api)
    \/ ReturnQuery

SpecRoute == Init /\ [][NextRoute]_vars

\* The text is made of whitespace only (the empty text included)
Spaces(s) == \A i \in 1..Len(s) : s[i] = SPACE

\* q is text without its leading and trailing whitespace
TrimOf(text, q) ==
    /\ q # <<>>
    /\ q[1] # SPACE
    /\ q[Len(q)] # SPACE
    /\ \E a \in 0..Len(text) :
          /\ a + Len(q) <= Len(text)
          /\ Spaces(SubSeq(text, 1, a))
          /\ SubSeq(text, a + 1, a + Len(q)) = q
          /\ Spaces(SubSeq(text, a + Len(q) + 1, Len(text)))

\* C11: a query that is empty or whitespace-only fails the construction of the
\* ComplexLLMRequest, and nothing is dispatched and no model call is made for
\* it; any other query gives a request that holds the query without its leading
\* and trailing whitespace.
C11_EmptyQueryRejected ==
    ~IsNone(caller.query) =>
        LET query == Val(caller.query)
        IN  IF Spaces(query)
            THEN /\ phase = "rejected"
                 /\ requests = <<>>
                 /\ uuids = 0
                 /\ apiCalls = 0
            ELSE /\ phase # "rejected"
                 /\ Len(requests) = 1
                 /\ TrimOf(query, requests[1].query)

\* A whitespace-only query was submitted and the call was rejected.
C11_Witness ==
    /\ phase = "rejected"
    /\ caller.query = Some(<<SPACE, SPACE>>)
    /\ requests = <<>>

-----------------------------------------------------------------------------
(* The batch route with lists up to one past the limit *)

\* Lists of n equal requests, n from none to one more than the model admits
UniformLists ==
    {[i \in 1..n |-> [query |-> Query, query_type |-> CONVERSATION]] :
        n \in 0..(MaxBatchSize + 1)}

NextValidate ==
    \/ Idle /\ \E reqs \in UniformLists, par \in BOOLEAN :
                    ProcessBatchQueries(reqs, par, DefaultMaxParallel)
    \/ \E i \in Items : RunTask(i)
    \/ \E i \in Items : StartQuery(i)
    \/ \E i \in Items : ModelReturns(i, ApiRaises)
    \/ FinishBatch

SpecValidate == Init /\ [][NextValidate]_vars

\* C12: a batch with no request or with more than MaxBatchSize requests is
\* rejected with nothing dispatched, no model call and no Batch Result; a batch
\* of 1..MaxBatchSize requests is accepted as submitted.
C12_BatchSizeValidated ==
    ~IsNone(caller.size) =>
        LET n == Val(caller.size)
        IN  IF n = 0 \/ n > MaxBatchSize
            THEN /\ phase = "rejected"
                 /\ requests = <<>>
                 /\ uuids = 0
                 /\ apiCalls = 0
                 /\ responses = <<>>
                 /\ IsNone(batch)
            ELSE /\ phase # "rejected"
                 /\ Len(requests) = n

\* A batch of MaxBatchSize + 1 requests was rejected.
C12_Witness ==
    /\ phase = "rejected"
    /\ caller.size = Some(MaxBatchSize + 1)
    /\ uuids = 0

-----------------------------------------------------------------------------
(* Batches: order and isolation of the items *)

\* The batch call in progress or ended is a sequential one
SequentialBatch == ~IsNone(call) /\ ~parallel /\ requests # <<>>

\* C13: in sequential mode an item's dispatch starts only after the dispatch of
\* the item before it has returned, dispatches start in input order, and at
\* most one dispatch is in progress.
C13_SequentialOneAtATime ==
    SequentialBatch =>
        /\ \A i, j \in Items : i < j /\ pc[j] # "created" =>
                /\ pc[i] = "done"
                /\ rid[i] < rid[j]
                /\ started[i] <= started[j]
        /\ Cardinality({i \in Items : pc[i] \notin {"created", "done"}}) <= 1

\* The second item of a sequential batch is at the model, the first has returned.
C13_Witness ==
    /\ phase = "sequential"
    /\ Len(requests) >= 2
    /\ pc[1] = "done"
    /\ pc[2] = "calling"

\* The items that have entered process_query
Entered == {i \in Items : rid[i] # 0}

\* The result of item i's own dispatch is a failure
Failed(i) == Done(i) /\ (Val(outcome[i]).raised \/ ~IsNone(ResultOf(i).error))

\* C14: an item's failure never ends the batch or keeps a sibling from its
\* dispatch.  process_batch raises only when no item was entered; an item is
\* entered once and makes at most one model call; and a returned batch has, for
\* every item, the result of that item's own dispatch in that item's slot.
C14_FailureIsolated ==
    /\ phase = "raised" /\ ~IsNone(call) => Entered = {}
    /\ ~IsNone(call) =>
          /\ uuids = 1 + Cardinality(Entered)
          /\ apiCalls <= Cardinality(Entered)
          /\ \A i, j \in Entered : i # j => rid[i] # rid[j]
    /\ phase = "returned" /\ ~IsNone(call) =>
          /\ Entered = Items
          /\ Len(responses) = Len(requests)
          /\ \A i \in Items :
                /\ Done(i)
                /\ ~Val(outcome[i]).raised
                /\ responses[i] = ResultOf(i)
                /\ responses[i].request_id = rid[i]
                /\ responses[i].query_type = requests[i].query_type

\* A parallel batch returned: the first item failed, the second has the result
\* of its own dispatch.
C14_Witness ==
    /\ phase = "returned"
    /\ parallel
    /\ Len(requests) = 2
    /\ Failed(1)
    /\ ErrorBearing(responses[1])
    /\ IsNone(responses[2].error)
    /\ responses[2].response_data # EmptyDict

\* C15: the dispatch of a request whose query is the empty string, validation
\* having been bypassed, ends with an error-bearing Query Result even when the
\* model answered it, and a returned batch counts that slot as failed.
C15_EmptyQueryIsError ==
    LET answered == {i \in Items : /\ Done(i)
                                   /\ requests[i].query = EmptyQuery
                                   /\ ~IsNone(raw[i])}
    IN  /\ \A i \in answered : ErrorBearing(ResultOf(i))
        /\ phase = "returned" /\ ~IsNone(batch) =>
                Val(batch).failed_count >= Cardinality(answered)

\* C16: every accepted batch completes.  While process_batch has not returned,
\* the batch can take a step: an item can be entered, a model call can return,
\* a task can run or the coordinator can finish; no batch is left with every
\* task waiting for a permit.
C16_BatchNeverStuck ==
    phase \in {"sequential", "gather"} => ENABLED Next

\* C17: process_batch raises no exception for a batch the request model
\* accepted, whatever parallel and max_parallel are.
C17_AcceptedBatchNeverRaises ==
    ~IsNone(call) /\ Len(requests) \in 1..MaxBatchSize => phase # "raised"

-----------------------------------------------------------------------------
(* The fallback branch of the dispatcher *)

\* The query types without a branch of their own in process_query
UnmatchedTypes == {LOCATION_ANALYSIS, CONVERSATION}

\* C18: a request of a type without a dedicated branch goes through the
\* conversation handler: what is sent to the model is the raw query with no
\* system prompt, the result has no error, and its response_data has exactly
\* the key `response`, holding what the completion client returned.
C18_UnmatchedTypeIsConversation ==
    \A i \in Items : requests[i].query_type \in UnmatchedTypes =>
        /\ ~IsNone(sent[i]) =>
              /\ Val(sent[i]).message = RawMessage(requests[i].query)
              /\ IsNone(Val(sent[i]).system_prompt)
        /\ pc[i] = "calling" => ~IsNone(sent[i])
        /\ Done(i) =>
              /\ ~Val(outcome[i]).raised
              /\ IsNone(ResultOf(i).error)
              /\ DOMAIN ResultOf(i).response_data = {"response"}
              /\ ResultOf(i).response_data.response = raw[i]

\* A location-analysis request was answered by the model through the
\* conversation handler.
C18_Witness ==
    \E i \in Items :
        /\ requests[i].query_type = LOCATION_ANALYSIS
        /\ Done(i)
        /\ ~IsNone(sent[i])
        /\ ~IsNone(raw[i])
        /\ ResultOf(i).response_data = [response |-> raw[i]]

-----------------------------------------------------------------------------
(* The service over several calls, with faults outside process_query's try *)

\* The code of item i outside the try of process_query (the entry of the
\* coroutine, time.time(), uuid.uuid4()) raises: the exception ends the task,
\* which gives its permit back; in the sequential loop and for a single query
\* it reaches the caller.
TaskFault(i) ==
    /\ i \in Items
    /\ MayStart(i)
    /\ outcome' = [outcome EXCEPT ![i] = Some(Raise("fault"))]
    /\ pc' = [pc EXCEPT ![i] = "done"]
    /\ IF phase = "gather"
       THEN Release /\ UNCHANGED phase
       ELSE /\ phase' = IF phase = "sequential" THEN "raised" ELSE phase
            /\ UNCHANGED <<sem, current, ready, waiters>>
    /\ UNCHANGED <<available, requests, parallel, max_parallel, rid, started, raw,
                   handled, uuids, now, apiCalls, call, responses, batch, sent, caller>>

\* The call has ended and the caller makes another: the service object keeps
\* no state between calls; the identifiers generated and the clock go on.
NewCall ==
    /\ phase \in {"returned", "raised", "rejected"}
    /\ caller.calls + 1 < MaxCalls
    /\ caller' = [caller EXCEPT !.calls = @ + 1, !.query = None, !.size = None]
    /\ phase' = "idle"
    /\ requests' = <<>>
    /\ parallel' = FALSE
    /\ max_parallel' = 0
    /\ pc' = <<>>
    /\ rid' = <<>>
    /\ started' = <<>>
    /\ raw' = <<>>
    /\ handled' = <<>>
    /\ outcome' = <<>>
    /\ sem' = 0
    /\ waiters' = <<>>
    /\ ready' = <<>>
    /\ current' = 0
    /\ call' = None
    /\ responses' = <<>>
    /\ batch' = None
    /\ sent' = <<>>
    /\ UNCHANGED <<available, uuids, now, apiCalls>>

\* The requests, batches and model outcomes of the calls
ServiceRequests == [query : {Query}, query_type : {TIME_RANGE_EXTRACTION, CONVERSATION}]
ServiceLists == UNION {[1..n -> ServiceRequests] : n \in 1..MaxRequests}
ServiceApiOutcomes == {ApiRaises, ApiReturns(Some(Json(GoodObject)))}

NextService ==
    \/ Idle /\ \E request \in ServiceRequests : ProcessQuery(request) /\ UNCHANGED caller
    \/ Idle /\ \E reqs \in ServiceLists, par \in BOOLEAN, k \in MaxParallelArgs :
                    ProcessBatchQueries(reqs, par, k)
    \/ \E i \in Items : RunTask(i)
    \/ \E i \in Items : StartQuery(i)
    \/ \E i \in Items, api \in ServiceApiOutcomes : ModelReturns(i, api)
    \/ \E i \in Items : TaskFault(i)
    \/ FinishBatch
    \/ ReturnQuery
    \/ NewCall

SpecService == Init /\ [][NextService]_vars

\* No value occurs twice in the sequence
Distinct(s) == \A i, j \in 1..Len(s) : i # j => s[i] # s[j]

Range(s) == {s[i] : i \in 1..Len(s)}

\* The call in progress has not handed its results to the caller yet
InProgress == phase \in {"single", "sequential", "gather"}

\* C19: over the calls made so far, no two Query Results given to callers have
\* the same request_id, the error results made at the gather boundary
\* included; the request_ids of the dispatches in progress are new as well;
\* and each process_batch call has one batch_id, which no other batch and no
\* Query Result has.
C19_FreshIds ==
    /\ Distinct(caller.ids \o caller.batch_ids)
    /\ InProgress =>
          /\ \A i \in Entered :
                /\ rid[i] \notin Range(caller.ids) \cup Range(caller.batch_ids)
                /\ ~IsNone(call) => rid[i] # Val(call).batch_id
          /\ \A i, j \in Entered : i # j => rid[i] # rid[j]
          /\ ~IsNone(call) => Val(call).batch_id \notin
                                  Range(caller.ids) \cup Range(caller.batch_ids)
    /\ ~IsNone(batch) =>
          /\ Val(batch).batch_id = Val(call).batch_id
          /\ caller.batch_ids[Len(caller.batch_ids)] = Val(batch).batch_id
          /\ \A i \in Items : Val(batch).responses[i].request_id \in Range(caller.ids)

\* A second call, a parallel batch in which a task ended with a fault, has
\* returned after a first call that returned results too.
C19_Witness ==
    /\ caller.calls = 1
    /\ phase = "returned"
    /\ parallel
    /\ \E i \in Items : Val(outcome[i]).raised
    /\ Len(caller.ids) > Len(requests)
    /\ Len(caller.batch_ids) = 2

\* The tasks of the batch that ended with an exception
Faulted == {i \in Items : Done(i) /\ Val(outcome[i]).raised}

\* The request_ids given to callers by the calls before the present batch
EarlierIds == Range(SubSeq(caller.ids, 1, Len(caller.ids) - Len(requests)))

\* C20: in parallel mode a task that ends with an exception of its own does
\* not make process_batch raise; the returned batch has at that task's index an
\* error-bearing Query Result with empty response_data, the query_type of the
\* request at that index, the exception's text and a request_id no dispatch, no
\* batch and no other result has; every other index holds the result of its
\* own dispatch.
C20_FaultBecomesErrorResult ==
    /\ parallel /\ Faulted # {} => phase # "raised"
    /\ parallel /\ phase = "returned" =>
          /\ Len(responses) = Len(requests)
          /\ \A i \in Items \ Faulted : responses[i] = ResultOf(i)
          /\ \A i \in Faulted :
                /\ ErrorBearing(responses[i])
                /\ responses[i].query_type = requests[i].query_type
                /\ responses[i].error = Some(Val(outcome[i]).msg)
                /\ responses[i].request_id \notin
                       {rid[j] : j \in Items} \cup {Val(call).batch_id} \cup EarlierIds
                /\ \A j \in Faulted \ {i} :
                       responses[j].request_id # responses[i].request_id

\* A parallel batch of requests of two types returned: the task of the second
\* ended with a fault, the first has the result of its dispatch.
C20_Witness ==
    /\ parallel
    /\ phase = "returned"
    /\ Len(requests) = 2
    /\ requests[1].query_type # requests[2].query_type
    /\ Faulted = {2}
    /\ ErrorBearing(responses[2])
    /\ responses[1] = ResultOf(1)
    /\ IsNone(responses[1].error)

-----------------------------------------------------------------------------
(* The Batch Result and the Query Results in it *)

\* C21: in a Batch Result successful_count is the number of responses whose
\* error is unset and failed_count the number whose error is set, and a Batch
\* Result exists only when every item of the batch has ended.
C21_CountsFollowErrors ==
    ~IsNone(batch) =>
        LET rs == Val(batch).responses
        IN  /\ Val(batch).successful_count =
                  Cardinality({i \in 1..Len(rs) : rs[i].error = None})
            /\ Val(batch).failed_count =
                  Cardinality({i \in 1..Len(rs) : rs[i].error # None})
            /\ \A i \in Items : pc[i] = "done" /\ ~IsNone(outcome[i])
            /\ rs = responses

\* A parallel batch returned with one failed and one successful response.
C21_Witness ==
    /\ ~IsNone(batch)
    /\ parallel
    /\ Len(requests) = 2
    /\ Val(batch).responses[1].error = None
    /\ Val(batch).responses[2].error # None
    /\ Val(batch).successful_count = 1
    /\ Val(batch).failed_count = 1

-----------------------------------------------------------------------------
(* The same batch in sequential and then in parallel mode *)

\* A sequential batch has returned and the caller submits the same requests
\* again: what the first call was given and returned is kept for comparison.
Resubmit ==
    /\ phase = "returned"
    /\ ~IsNone(batch)
    /\ ~parallel
    /\ IsNone(caller.prev)
    /\ caller' = [caller EXCEPT !.calls = @ + 1, !.size = None,
                                !.prev = Some([requests |-> requests, raw |-> raw,
                                               batch |-> Val(batch)])]
    /\ phase' = "idle"
    /\ requests' = <<>>
    /\ parallel' = FALSE
    /\ max_parallel' = 0
    /\ pc' = <<>>
    /\ rid' = <<>>
    /\ started' = <<>>
    /\ raw' = <<>>
    /\ handled' = <<>>
    /\ outcome' = <<>>
    /\ sem' = 0
    /\ waiters' = <<>>
    /\ ready' = <<>>
    /\ current' = 0
    /\ call' = None
    /\ responses' = <<>>
    /\ batch' = None
    /\ sent' = <<>>
    /\ UNCHANGED <<available, uuids, now, apiCalls>>

NextModes ==
    \/ Idle /\ IsNone(caller.prev) /\ \E reqs \in ServiceLists :
                    ProcessBatchQueries(reqs, FALSE, DefaultMaxParallel)
    \/ Idle /\ ~IsNone(caller.prev) /\ \E k \in 1..MaxParallelArg :
                    ProcessBatchQueries(Val(caller.prev).requests, TRUE, k)
    \/ \E i \in Items : RunTask(i)
    \/ \E i \in Items : StartQuery(i)
    \/ \E i \in Items, api \in ServiceApiOutcomes : ModelReturns(i, api)
    \/ FinishBatch
    \/ Resubmit

SpecModes == Init /\ [][NextModes]_vars

\* The parallel batch has returned after the sequential batch of the same
\* requests, and the completion client gave each request the same reply.
SameReplies ==
    /\ ~IsNone(caller.prev)
    /\ phase = "returned"
    /\ parallel
    /\ requests = Val(caller.prev).requests
    /\ raw = Val(caller.prev).raw

\* C22: for the same requests and the same replies of the completion client,
\* the parallel Batch Result agrees with the sequential one at every index on
\* query_type, on response_data and on whether error is set, and on both counts.
C22_ModesAgree ==
    SameReplies =>
        LET seq == Val(caller.prev).batch
            par == Val(batch)
        IN  /\ Len(par.responses) = Len(seq.responses)
            /\ \A i \in 1..Len(par.responses) :
                  /\ par.responses[i].query_type = seq.responses[i].query_type
                  /\ par.responses[i].response_data = seq.responses[i].response_data
                  /\ IsNone(par.responses[i].error) = IsNone(seq.responses[i].error)
            /\ par.successful_count = seq.successful_count
            /\ par.failed_count = seq.failed_count

\* Both runs of a batch of two requests of different types have returned, with
\* one failed and one successful item.
C22_Witness ==
    /\ SameReplies
    /\ Len(requests) = 2
    /\ requests[1].query_type # requests[2].query_type
    /\ Val(batch).successful_count = 1
    /\ Val(batch).failed_count = 1
    /\ Val(batch).batch_id # Val(caller.prev).batch.batch_id

\* C23: every Query Result carries a processing_time_ms: the result of a
\* dispatch has the time elapsed since the dispatch started, and every entry of
\* a returned Batch Result, in either mode, has a processing_time_ms.
C23_EveryResultTimed ==
    /\ \A i \in Items : Done(i) /\ ~Val(outcome[i]).raised =>
            /\ ~IsNone(ResultOf(i).processing_time_ms)
            /\ Val(ResultOf(i).processing_time_ms) >= 0
    /\ ~IsNone(batch) =>
          \A i \in 1..Len(Val(batch).responses) :
              ~IsNone(Val(batch).responses[i].processing_time_ms)

-----------------------------------------------------------------------------
(* The reply of a time range extraction *)

\* Item i is a time range extraction that was given a reply text.
TimeRangeText(i) ==
    /\ i \in Items
    /\ Done(i)
    /\ requests[i].query_type = TIME_RANGE_EXTRACTION
    /\ ~Falsy(raw[i])

Has(text, c) == \E n \in 1..Len(text) : text[n] = c
FirstOf(text, c) == CHOOSE n \in 1..Len(text) :
                        text[n] = c /\ \A m \in 1..(n - 1) : text[m] # c
LastOf(text, c) == CHOOSE n \in 1..Len(text) :
                       text[n] = c /\ \A m \in (n + 1)..Len(text) : text[m] # c

\* The part of the text from its first opening to its last closing brace
Enclosed(text) == SubSeq(text, FirstOf(text, LB), LastOf(text, RB))

\* The text has no such part that decodes
NothingToDecode(text) ==
    \/ ~Has(text, LB)
    \/ ~Has(text, RB)
    \/ LastOf(text, RB) < FirstOf(text, LB)
    \/ IsNone(json_loads(Enclosed(text)))

\* C24: parse_response gives no result for a reply without an opening or a
\* closing brace, with its last closing brace before its first opening brace,
\* or whose part from the first opening to the last closing brace does not
\* decode; a result it gives is the decoding of exactly that part, whatever
\* precedes and follows it.
C24_DecodesFirstToLastBrace ==
    \A i \in Items : TimeRangeText(i) =>
        LET text == Val(raw[i])
            parsed == parse_response(text)
        IN  /\ NothingToDecode(text) => ~parsed.raised /\ IsNone(parsed.value)
            /\ ~parsed.raised /\ ~IsNone(parsed.value) =>
                    parsed.value = json_loads(Enclosed(text))

\* A reply with an object inside prose was parsed and the dispatch succeeded.
C24_Witness ==
    /\ TimeRangeText(1)
    /\ Val(raw[1]) = <<TXT>> \o Json(GoodObject) \o <<TXT>>
    /\ parse_response(Val(raw[1])).value = Some(GoodObject)
    /\ IsNone(ResultOf(1).error)

-----------------------------------------------------------------------------
(* The shape of response_data *)

\* The keys of a successful result's response_data, by query_type, and the key
\* under which the model reply is returned
KeysOf(query_type) ==
    IF query_type = TIME_RANGE_EXTRACTION
    THEN {"time_range", "reasoning", "confidence", "query_type", "raw_llm_response"}
    ELSE IF query_type = ACTIVITY_RECOMMENDATION THEN {"recommendation", "context"}
    ELSE IF query_type = MUSIC_DISCOVERY THEN {"music_response", "user_context"}
    ELSE {"response"}

ReplyKey(query_type) ==
    IF query_type = TIME_RANGE_EXTRACTION THEN "raw_llm_response"
    ELSE IF query_type = ACTIVITY_RECOMMENDATION THEN "recommendation"
    ELSE IF query_type = MUSIC_DISCOVERY THEN "music_response"
    ELSE "response"

\* Item i ended with a result without an error
Succeeded(i) == Done(i) /\ ~Val(outcome[i]).raised /\ IsNone(ResultOf(i).error)

\* C25: the keys of a successful result's response_data are those of the
\* request's query_type, whatever the reply was, and the reply of the model is
\* the value under the type's reply key.
C25_KeysByQueryType ==
    \A i \in Items : Succeeded(i) =>
        LET data == ResultOf(i).response_data
            t == requests[i].query_type
        IN  /\ ResultOf(i).query_type = t
            /\ DOMAIN data = KeysOf(t)
            /\ data[ReplyKey(t)] = raw[i]
            /\ t = TIME_RANGE_EXTRACTION =>
                  DOMAIN data.time_range = {"start_time", "end_time", "description"}

\* A batch of an activity recommendation and a music discovery request, both
\* answered by the model, has returned.
C25_Witness ==
    /\ phase = "returned"
    /\ Len(requests) = 2
    /\ requests[1].query_type = ACTIVITY_RECOMMENDATION
    /\ requests[2].query_type = MUSIC_DISCOVERY
    /\ Succeeded(1) /\ ~IsNone(raw[1])
    /\ Succeeded(2) /\ ~IsNone(raw[2])
    /\ DOMAIN responses[1].response_data = {"recommendation", "context"}

-----------------------------------------------------------------------------
(* The /complex-query and /batch entry points with their authenticated user *)

\* get_current_user_optional: no user, or the authenticated user
CurrentUsers == {None, Some("uid")}

\* UserContext(user_id=current_user.uid, display_name=current_user.display_name)
UserContext(current_user) == Some([user_id |-> Val(current_user)])

\* Requests as the entry points receive them: constructed, with or without a
\* user_context of their own
EntryRequests ==
    [query : {Query}, query_type : {TIME_RANGE_EXTRACTION, CONVERSATION},
     user_context : {None, Some([user_id |-> "own"])}]
EntryLists == UNION {[1..n -> EntryRequests] : n \in 0..MaxRequests}

\* `if current_user and not request.user_context: request.user_context = ...`
AddUserContext(request, current_user) ==
    IF ~IsNone(current_user) /\ IsNone(request.user_context)
    THEN [request EXCEPT !.user_context = UserContext(current_user)]
    ELSE request

\* POST /complex-query: the constructed request is given the user's context and
\* dispatched.
ProcessComplexQueryAs(llm_request, current_user) ==
    /\ phase = "idle"
    /\ caller' = [caller EXCEPT !.built = Some(<<llm_request>>)]
    /\ ProcessQuery(AddUserContext(llm_request, current_user))

\* POST /batch: every request of the constructed batch is given the user's
\* context, then the batch goes to process_batch.
ProcessBatchQueriesAs(reqs, par, k, current_user) ==
    LET v == requests_not_empty(reqs)
    IN  /\ phase = "idle"
        /\ caller' = [caller EXCEPT !.size = Some(Len(reqs)), !.built = Some(reqs)]
        /\ IF v.raised
           THEN Rejected
           ELSE ProcessBatch([i \in 1..Len(reqs) |->
                                 AddUserContext(v.value[i], current_user)], par, k)

NextEntry ==
    \/ Idle /\ \E llm_request \in EntryRequests, current_user \in CurrentUsers :
                    ProcessComplexQueryAs(llm_request, current_user)
    \/ Idle /\ \E reqs \in EntryLists, par \in BOOLEAN, k \in 1..MaxParallelArg,
                  current_user \in CurrentUsers :
                    ProcessBatchQueriesAs(reqs, par, k, current_user)
    \/ \E i \in Items : RunTask(i)
    \/ \E i \in Items : StartQuery(i)
    \/ \E i \in Items, api \in ServiceApiOutcomes : ModelReturns(i, api)
    \/ FinishBatch
    \/ ReturnQuery

SpecEntry == Init /\ [][NextEntry]_vars

\* C26: from its construction to the return of the call that consumes it, a
\* request keeps every field it was built with: the requests the service
\* works on are the requests as constructed.
C26_RequestUnchanged ==
    ~IsNone(caller.built) => requests = Val(caller.built)

-----------------------------------------------------------------------------
(* The handlers that do not look at the reply *)

\* The query types whose handler returns whatever the completion client gave
UncheckedTypes ==
    {ACTIVITY_RECOMMENDATION, MUSIC_DISCOVERY, CONVERSATION, LOCATION_ANALYSIS}

\* C27: the dispatch of an activity, music, conversation or location request
\* always ends with a Query Result without an error and with response_data
\* that is not empty; when the client was unavailable, its API call failed or
\* it returned no text, the value under the type's reply key is null.
C27_MissingReplyIsNull ==
    \A i \in Items : Done(i) /\ requests[i].query_type \in UncheckedTypes =>
        LET data == ResultOf(i).response_data
        IN  /\ ~Val(outcome[i]).raised
            /\ IsNone(ResultOf(i).error)
            /\ data # EmptyDict
            /\ ReplyKey(requests[i].query_type) \in DOMAIN data
            /\ (~available \/ IsNone(raw[i])) =>
                    IsNone(data[ReplyKey(requests[i].query_type)])
            /\ ~available => IsNone(raw[i]) /\ IsNone(sent[i])

\* A music request was dispatched while the client was unavailable and came
\* back without an error and with a null reply.
C27_Witness ==
    /\ ~available
    /\ phase = "returned"
    /\ Len(requests) = 1
    /\ requests[1].query_type = MUSIC_DISCOVERY
    /\ IsNone(ResultOf(1).error)
    /\ ResultOf(1).response_data.music_response = None

-----------------------------------------------------------------------------
(* Parallel mode: the tasks and the permits *)

\* The items whose task has entered the semaphore
EnteredSemaphore == {i \in Items : pc[i] \in {"holding", "calling", "done"}}

C29_PermitsReleased ==
    parallel /\ phase \in {"gather", "returned"} =>
        /\ sem >= 0
        /\ sem <= max_parallel
        /\ sem + Cardinality(Holders) = max_parallel
        /\ \A i \in Items : Done(i) => i \notin Holders /\ current # i
        /\ phase = "returned" =>
              /\ sem = max_parallel
              /\ waiters = <<>>
              /\ ready = <<>>
              /\ current = 0

\* A parallel batch over one permit has returned after a failed item and an
\* item whose task ended with an exception.
C29_Witness ==
    /\ parallel
    /\ phase = "returned"
    /\ max_parallel = 1
    /\ Len(requests) = 2
    /\ Failed(1) /\ ~Val(outcome[1]).raised
    /\ Val(outcome[2]).raised
    /\ sem = 1

-----------------------------------------------------------------------------
(* Time range replies that parse but do not validate *)

\* The reply of item i decoded to an object with every required field, which
\* parse_response returned.
ParsedReply(i) ==
    /\ TimeRangeReply(i)
    /\ ~LacksRequiredField(ReplyObjectOf(i))
    /\ parse_response(Val(raw[i])) = Return(Some(ReplyObjectOf(i)))

\* confidence (in tenths) within [0, 1]
InUnitRange(c) == c \in 0..10

\* C30: a time range reply with every required field that has a confidence
\* outside [0, 1], or a start_time or end_time that is no timestamp, is
\* returned by parse_response and yet ends the dispatch with an error-bearing
\* Query Result; every successful time range result has a confidence within
\* [0, 1] and timestamps that parsed.
C30_InvalidValuesRejected ==
    \A i \in Items :
        /\ (/\ TimeRangeReply(i)
            /\ ~LacksRequiredField(ReplyObjectOf(i))
            /\ \/ ~InUnitRange(ReplyObjectOf(i).confidence)
               \/ ReplyObjectOf(i).start_time = BadTimestamp
               \/ ReplyObjectOf(i).end_time = BadTimestamp)
                => /\ ParsedReply(i)
                   /\ ErrorBearing(ResultOf(i))
        /\ (/\ Done(i)
            /\ requests[i].query_type = TIME_RANGE_EXTRACTION
            /\ IsNone(ResultOf(i).error))
                => /\ InUnitRange(ResultOf(i).response_data.confidence)
                   /\ ResultOf(i).response_data.time_range.start_time # BadTimestamp
                   /\ ResultOf(i).response_data.time_range.end_time # BadTimestamp

\* A reply with end_time after start_time and a confidence above 1 was parsed
\* and the dispatch returned an error result.
C30_Witness ==
    /\ ParsedReply(1)
    /\ ReplyObjectOf(1).confidence > 10
    /\ ReplyObjectOf(1).end_time > ReplyObjectOf(1).start_time
    /\ ReplyObjectOf(1).start_time # BadTimestamp
    /\ ErrorBearing(ResultOf(1))
    /\ phase = "returned"

====
